---- MODULE Spec2Model ----
(***************************************************************************)
(* Model of packages/openapi-ts/src/compiler/module.ts: the builders of    *)
(* export, import, call and const declarations.                            *)
(*                                                                         *)
(* Nodes live in a heap (a sequence; a node's identity is its index), so   *)
(* that "a fresh node", "the supplied node, unchanged" and "the same       *)
(* structure" are different things.  Every builder takes the heap and its  *)
(* arguments and returns the grown heap and the id of the node it returns. *)
(***************************************************************************)
EXTENDS Integers, Sequences, FiniteSets, TLC

VARIABLES heap, todo, log

vars == <<heap, todo, log>>

(* ------------------------------------------------------------------ *)
(* Bounds of the model                                                *)
(* ------------------------------------------------------------------ *)
MaxItems == 2    \* longest import/export item sequence
MaxArgs == 2     \* longest call argument sequence
MaxCalls == 2    \* builder calls in one run of SpecCalls

(* ------------------------------------------------------------------ *)
(* JavaScript values                                                  *)
(* ------------------------------------------------------------------ *)
Undefined == "undefined"

\* an optional boolean: true, false or absent
TriState == {"true", "false", Undefined}

\* JavaScript truthiness of an optional boolean / of an optional string
truthy(v) == v = "true"
truthyString(s) == s # Undefined /\ s # ""

\* a value of type `string | ts.Node`: typeof v is "string" or "object"
Str(s) == [type |-> "string", text |-> s, id |-> 0]
NodeRef(i) == [type |-> "object", text |-> "", id |-> i]

(* ------------------------------------------------------------------ *)
(* Nodes and the heap                                                 *)
(* ------------------------------------------------------------------ *)
\* the id that stands for `undefined` where a node may be absent
NoNode == 0

mk(kind, text, flags, kids) ==
  [kind |-> kind, text |-> text, flags |-> flags, kids |-> kids, comment |-> <<>>]

Alloc(h, node) == [heap |-> Append(h, node), id |-> Len(h) + 1]

NilTree == [kind |-> Undefined, text |-> "", flags |-> {}, kids |-> <<>>, comment |-> <<>>]

\* the structure reachable from a node: what a deep comparison compares
RECURSIVE Deep(_, _)
Deep(h, id) ==
  IF id = NoNode THEN NilTree
  ELSE [kind |-> h[id].kind, text |-> h[id].text, flags |-> h[id].flags,
        comment |-> h[id].comment,
        kids |-> [i \in DOMAIN h[id].kids |-> Deep(h, h[id].kids[i])]]

(* ------------------------------------------------------------------ *)
(* ts.factory, as module.ts uses it                                   *)
(* ------------------------------------------------------------------ *)
createIdentifier(h, text) == Alloc(h, mk("Identifier", text, {}, <<>>))

createNodeArray(h, ids) == Alloc(h, mk("NodeArray", "", {}, ids))

TypeOnly(isTypeOnly) == IF isTypeOnly THEN {"isTypeOnly"} ELSE {}

createExportSpecifier(h, isTypeOnly, propertyName, name) ==
  Alloc(h, mk("ExportSpecifier", "", TypeOnly(isTypeOnly), <<propertyName, name>>))

createImportSpecifier(h, isTypeOnly, propertyName, name) ==
  Alloc(h, mk("ImportSpecifier", "", TypeOnly(isTypeOnly), <<propertyName, name>>))

createNamedExports(h, elements) ==
  LET a == createNodeArray(h, elements)
  IN Alloc(a.heap, mk("NamedExports", "", {}, <<a.id>>))

createNamedImports(h, elements) ==
  LET a == createNodeArray(h, elements)
  IN Alloc(a.heap, mk("NamedImports", "", {}, <<a.id>>))

createExportDeclaration(h, modifiers, isTypeOnly, exportClause, moduleSpecifier) ==
  Alloc(h, mk("ExportDeclaration", "", TypeOnly(isTypeOnly),
              <<modifiers, exportClause, moduleSpecifier>>))

createImportClause(h, isTypeOnly, name, namedBindings) ==
  Alloc(h, mk("ImportClause", "", TypeOnly(isTypeOnly), <<name, namedBindings>>))

createImportDeclaration(h, modifiers, importClause, moduleSpecifier) ==
  Alloc(h, mk("ImportDeclaration", "", {}, <<modifiers, importClause, moduleSpecifier>>))

(* ------------------------------------------------------------------ *)
(* ./utils: ots.string, ots.export, ots.import                        *)
(* ------------------------------------------------------------------ *)
\* ots.string(value): the string literal holding value
otsString(h, value) == Alloc(h, mk("StringLiteral", value, {}, <<>>))

\* ots.export({alias, asType = false, name}): `name` or `name as alias`
otsExport(h, alias, asType, name) ==
  LET n == createIdentifier(h, name)
  IN IF truthyString(alias)
     THEN LET a == createIdentifier(n.heap, alias)
          IN createExportSpecifier(a.heap, truthy(asType), n.id, a.id)
     ELSE createExportSpecifier(n.heap, truthy(asType), NoNode, n.id)

\* ots.import({alias, asType = false, name}): `name` or `name as alias`
otsImport(h, alias, asType, name) ==
  LET n == createIdentifier(h, name)
  IN IF truthyString(alias)
     THEN LET a == createIdentifier(n.heap, alias)
          IN createImportSpecifier(a.heap, truthy(asType), n.id, a.id)
     ELSE createImportSpecifier(n.heap, truthy(asType), NoNode, n.id)

(* ------------------------------------------------------------------ *)
(* createExportAllDeclaration                                         *)
(* ------------------------------------------------------------------ *)
createExportAllDeclaration(h, a) ==
  LET s == otsString(h, a.module)
  IN createExportDeclaration(s.heap, NoNode, FALSE, NoNode, s.id)

(* ------------------------------------------------------------------ *)
(* Import/export items                                                *)
(* ------------------------------------------------------------------ *)
\* ImportExportItem = ImportExportItemObject | string
StringItem(n) == [type |-> "string", text |-> n]
ObjectItem(n, al, ty) == [type |-> "object", name |-> n, alias |-> al, asType |-> ty]

\* typeof name === 'string' ? { name } : name
itemObject(name) ==
  IF name.type = "string" THEN ObjectItem(name.text, Undefined, Undefined) ELSE name

\* Array.isArray(x) ? x : [x]
asArray(x) == IF x.isArray THEN x.items ELSE <<x.item>>

(* ------------------------------------------------------------------ *)
(* createNamedExportDeclarations                                      *)
(* ------------------------------------------------------------------ *)
\* (item) => typeof item !== 'object' || !item.asType
isNonTypeExport_ObjectsOnly(item) == item.type = "object" /\ ~truthy(item.asType)

isNonTypeExport_TypeofOnly(item) == item.type # "object"

isNonTypeExport(item) == item.type # "object" \/ ~truthy(item.asType)

hasNonTypeExport(exportedTypes) ==
  \E i \in DOMAIN exportedTypes : isNonTypeExport(exportedTypes[i])

\* asType: hasNonTypeExport && item.asType
exportAsType_Unguarded(has, item) == item.asType

exportAsType(has, item) == IF has THEN item.asType ELSE "false"

\* exportedTypes.map((name) => ots.export({...})), from position i on
RECURSIVE exportElements(_, _, _, _)
exportElements(h, exportedTypes, has, i) ==
  IF i > Len(exportedTypes) THEN [heap |-> h, ids |-> <<>>]
  ELSE LET item == itemObject(exportedTypes[i])
           e == otsExport(h, item.alias, exportAsType(has, item), item.name)
           rest == exportElements(e.heap, exportedTypes, has, i + 1)
       IN [heap |-> rest.heap, ids |-> <<e.id>> \o rest.ids]

createNamedExportDeclarations(h, a) ==
  LET exportedTypes == asArray(a.exports)
      has == hasNonTypeExport(exportedTypes)
      elements == exportElements(h, exportedTypes, has, 1)
      exportClause == createNamedExports(elements.heap, elements.ids)
      moduleSpecifier == otsString(exportClause.heap, a.module)
  IN createExportDeclaration(moduleSpecifier.heap, NoNode, ~has,
                             exportClause.id, moduleSpecifier.id)

(* ------------------------------------------------------------------ *)
(* createNamedImportDeclarations                                      *)
(* ------------------------------------------------------------------ *)
\* (item) => typeof item !== 'object' || !item.asType
isNonTypeImport_AliasedAreValues(item) ==
  item.type # "object" \/ ~truthy(item.asType) \/ truthyString(item.alias)

isNonTypeImport(item) == item.type # "object" \/ ~truthy(item.asType)

hasNonTypeImport(importedTypes) ==
  \E i \in DOMAIN importedTypes : isNonTypeImport(importedTypes[i])

\* asType: hasNonTypeImport && item.asType
importAsType(has, item) == IF has THEN item.asType ELSE "false"

\* importedTypes.map((name) => ots.import({...})), from position i on
RECURSIVE importElements(_, _, _, _)
importElements(h, importedTypes, has, i) ==
  IF i > Len(importedTypes) THEN [heap |-> h, ids |-> <<>>]
  ELSE LET item == itemObject(importedTypes[i])
           e == otsImport(h, item.alias, importAsType(has, item), item.name)
           rest == importElements(e.heap, importedTypes, has, i + 1)
       IN [heap |-> rest.heap, ids |-> <<e.id>> \o rest.ids]

createNamedImportDeclarations(h, a) ==
  LET importedTypes == asArray(a.imports)
      has == hasNonTypeImport(importedTypes)
      elements == importElements(h, importedTypes, has, 1)
      namedBindings == createNamedImports(elements.heap, elements.ids)
      importClause == createImportClause(namedBindings.heap, ~has, NoNode, namedBindings.id)
      moduleSpecifier == otsString(importClause.heap, a.module)
  IN createImportDeclaration(moduleSpecifier.heap, NoNode, importClause.id,
                             moduleSpecifier.id)

(* ------------------------------------------------------------------ *)
(* createCallExpression                                               *)
(* ------------------------------------------------------------------ *)
\* ts.factory.createCallExpression(expression, typeArguments, argumentsArray)
factoryCreateCallExpression(h, expression, typeArguments, argumentsArray) ==
  LET t == IF typeArguments.present THEN createNodeArray(h, typeArguments.list)
           ELSE [heap |-> h, id |-> NoNode]
      args == createNodeArray(t.heap, argumentsArray)
  IN Alloc(args.heap, mk("CallExpression", "", {}, <<expression, t.id, args.id>>))

\* parameters = []
defaultParameters(parameters) == IF parameters.present THEN parameters.list ELSE <<>>

\* typeof functionName === 'string' ? createIdentifier(functionName) : functionName
callExpression(h, functionName) ==
  IF functionName.type = "string" THEN createIdentifier(h, functionName.text)
  ELSE [heap |-> h, id |-> functionName.id]

\* typeof parameter === 'string' ? createIdentifier(parameter) : parameter
callArgument_Literal(h, parameter) ==
  IF parameter.type = "string" THEN Alloc(h, mk("StringLiteral", parameter.text, {}, <<>>))
  ELSE [heap |-> h, id |-> parameter.id]

callArgument(h, parameter) ==
  IF parameter.type = "string" THEN createIdentifier(h, parameter.text)
  ELSE [heap |-> h, id |-> parameter.id]

\* parameters.map(...), from position i on
RECURSIVE callArguments(_, _, _)
callArguments(h, parameters, i) ==
  IF i > Len(parameters) THEN [heap |-> h, ids |-> <<>>]
  ELSE LET e == callArgument(h, parameters[i])
           rest == callArguments(e.heap, parameters, i + 1)
       IN [heap |-> rest.heap, ids |-> <<e.id>> \o rest.ids]

createCallExpression(h, a) ==
  LET expression == callExpression(h, a.functionName)
      argumentsArray == callArguments(expression.heap, defaultParameters(a.parameters), 1)
  IN factoryCreateCallExpression(argumentsArray.heap, expression.id, a.types,
                                 argumentsArray.ids)

(* ------------------------------------------------------------------ *)
(* createConstVariable                                                *)
(* ------------------------------------------------------------------ *)
\* ts.factory.createTypeReferenceNode(typeName: string)
createTypeReferenceNode(h, typeName) ==
  LET n == createIdentifier(h, typeName)
  IN Alloc(n.heap, mk("TypeReference", "", {}, <<n.id, NoNode>>))

createAsExpression(h, expression, type) ==
  Alloc(h, mk("AsExpression", "", {}, <<expression, type>>))

createBindingElement(h, dotDotDotToken, propertyName, name, initializer) ==
  Alloc(h, mk("BindingElement", "", {}, <<dotDotDotToken, propertyName, name, initializer>>))

createObjectBindingPattern(h, elements) ==
  LET a == createNodeArray(h, elements)
  IN Alloc(a.heap, mk("ObjectBindingPattern", "", {}, <<a.id>>))

createVariableDeclaration(h, name, exclamationToken, type, initializer) ==
  Alloc(h, mk("VariableDeclaration", "", {}, <<name, exclamationToken, type, initializer>>))

createModifier(h, kind) == Alloc(h, mk(kind, "", {}, <<>>))

createVariableDeclarationList(h, declarations, flags) ==
  LET a == createNodeArray(h, declarations)
  IN Alloc(a.heap, mk("VariableDeclarationList", "", flags, <<a.id>>))

createVariableStatement(h, modifiers, declarationList) ==
  LET m == IF modifiers.present THEN createNodeArray(h, modifiers.list)
           ELSE [heap |-> h, id |-> NoNode]
  IN Alloc(m.heap, mk("VariableStatement", "", {}, <<m.id, declarationList>>))

\* ./utils addLeadingJSDocComment(node, text): the node carries the comment
addLeadingJSDocComment(h, node, text) == [h EXCEPT ![node].comment = text]

\* const initializer = constAssertion ? createAsExpression(expression, 'const') : expression
constInitializer_Always(h, a) ==
  LET t == createTypeReferenceNode(h, "const")
  IN createAsExpression(t.heap, a.expression, t.id)

constInitializer(h, a) ==
  IF truthy(a.constAssertion)
  THEN LET t == createTypeReferenceNode(h, "const")
       IN createAsExpression(t.heap, a.expression, t.id)
  ELSE [heap |-> h, id |-> a.expression]

\* destructure ? createObjectBindingPattern([createBindingElement(..)]) : nameIdentifier
constBinding_Renaming(h, a, nameIdentifier) ==
  IF truthy(a.destructure)
  THEN LET e == createBindingElement(h, NoNode, nameIdentifier, nameIdentifier, NoNode)
       IN createObjectBindingPattern(e.heap, <<e.id>>)
  ELSE [heap |-> h, id |-> nameIdentifier]

constBinding(h, a, nameIdentifier) ==
  IF truthy(a.destructure)
  THEN LET e == createBindingElement(h, NoNode, NoNode, nameIdentifier, NoNode)
       IN createObjectBindingPattern(e.heap, <<e.id>>)
  ELSE [heap |-> h, id |-> nameIdentifier]

\* typeName ? createTypeReferenceNode(typeName) : undefined
constType(h, a) ==
  IF truthyString(a.typeName) THEN createTypeReferenceNode(h, a.typeName)
  ELSE [heap |-> h, id |-> NoNode]

\* exportConst ? [createModifier(SyntaxKind.ExportKeyword)] : undefined
constModifiers(h, a) ==
  IF truthy(a.exportConst)
  THEN LET m == createModifier(h, "ExportKeyword")
       IN [heap |-> m.heap, mods |-> [present |-> TRUE, list |-> <<m.id>>]]
  ELSE [heap |-> h, mods |-> [present |-> FALSE, list |-> <<>>]]

\* createVariableDeclarationList([declaration], ts.NodeFlags.Const)
constDeclarationList_LetWhenExported(h, a, declaration) ==
  createVariableDeclarationList(h, <<declaration>>,
                                IF truthy(a.exportConst) THEN {"Let"} ELSE {"Const"})

constDeclarationList(h, a, declaration) ==
  createVariableDeclarationList(h, <<declaration>>, {"Const"})

\* if (comment) { addLeadingJSDocComment(statement, comment) }
constComment_OnExpression(h, a, statement) ==
  IF a.comment.present THEN addLeadingJSDocComment(h, a.expression, a.comment.list) ELSE h

constComment(h, a, statement) ==
  IF a.comment.present THEN addLeadingJSDocComment(h, statement, a.comment.list) ELSE h

createConstVariable(h, a) ==
  LET initializer == constInitializer(h, a)
      nameIdentifier == createIdentifier(initializer.heap, a.name)
      binding == constBinding(nameIdentifier.heap, a, nameIdentifier.id)
      type == constType(binding.heap, a)
      declaration == createVariableDeclaration(type.heap, binding.id, NoNode, type.id,
                                               initializer.id)
      modifiers == constModifiers(declaration.heap, a)
      list == constDeclarationList(modifiers.heap, a, declaration.id)
      statement == createVariableStatement(list.heap, modifiers.mods, list.id)
  IN [heap |-> constComment(statement.heap, a, statement.id), id |-> statement.id]

(* ------------------------------------------------------------------ *)
(* The caller: the nodes it has built before and the calls it makes   *)
(* ------------------------------------------------------------------ *)
\* nodes the caller owns before any call: `obj.method`, the literal "b", a type
InitHeap ==
  << mk("Identifier", "obj", {}, <<>>),
     mk("Identifier", "method", {}, <<>>),
     mk("PropertyAccessExpression", "", {}, <<1, 2>>),
     mk("StringLiteral", "b", {}, <<>>),
     mk("StringKeyword", "", {}, <<>>) >>

MemberAccess == 3
Literal == 4
TypeNode == 5

Names == {"A", "B"}
Aliases == {Undefined, "X"}
Modules == {"", "./y"}

Items ==
  {StringItem(n) : n \in Names}
    \cup {ObjectItem(n, al, ty) : n \in Names, al \in Aliases, ty \in TriState}

SeqsUpTo(S, n) == UNION {[1..k -> S] : k \in 0..n}

\* Array<ImportExportItem> | ImportExportItem
ItemInputs(S, n) ==
  {[isArray |-> TRUE, items |-> s, item |-> StringItem("")] : s \in SeqsUpTo(S, n)}
    \cup {[isArray |-> FALSE, items |-> <<>>, item |-> it] : it \in S}

Absent == [present |-> FALSE, list |-> <<>>]
Present(s) == [present |-> TRUE, list |-> s]

Call(fn, args) == [fn |-> fn, args |-> args]

ExportAllCalls ==
  {Call("createExportAllDeclaration", [module |-> m]) : m \in Modules}

NamedExportCalls(S, n) ==
  {Call("createNamedExportDeclarations", [exports |-> x, module |-> m]) :
     x \in ItemInputs(S, n), m \in Modules}

NamedImportCalls(S, n) ==
  {Call("createNamedImportDeclarations", [imports |-> x, module |-> m]) :
     x \in ItemInputs(S, n), m \in Modules}

CallArgs == {Str("a"), Str("b"), NodeRef(Literal), NodeRef(MemberAccess)}

CallExpressionCalls(S, n) ==
  {Call("createCallExpression", [functionName |-> f, parameters |-> ps, types |-> ts]) :
     f \in {Str("foo"), NodeRef(MemberAccess)},
     ps \in {Absent} \cup {Present(s) : s \in SeqsUpTo(S, n)},
     ts \in {Absent, Present(<<TypeNode>>)}}

ConstVariableCalls(T, TypeNames) ==
  {Call("createConstVariable",
        [comment |-> c, constAssertion |-> ca, destructure |-> d, expression |-> e,
         exportConst |-> ex, name |-> n, typeName |-> t]) :
     c \in {Absent, Present(<<"doc">>)}, ca \in T, d \in T,
     e \in {Literal, MemberAccess}, ex \in T, n \in {"x"}, t \in TypeNames}

\* every call of the model
Calls ==
  ExportAllCalls \cup NamedExportCalls(Items, MaxItems)
    \cup NamedImportCalls(Items, MaxItems)
    \cup CallExpressionCalls(CallArgs, MaxArgs)
    \cup ConstVariableCalls(TriState, {Undefined, "", "T"})

\* the calls of a run that makes several
FewItems == {StringItem("A"), ObjectItem("A", Undefined, "true")}

FewCalls ==
  {Call("createExportAllDeclaration", [module |-> "./y"])}
    \cup {c \in NamedExportCalls(FewItems, 1) : c.args.module = "./y"}
    \cup {c \in NamedImportCalls(FewItems, 1) : c.args.module = "./y"}
    \cup {c \in CallExpressionCalls({Str("a"), NodeRef(Literal)}, 1) :
            ~c.args.types.present}
    \cup {c \in ConstVariableCalls({"true", Undefined}, {Undefined}) :
            c.args.expression = Literal}

(* ------------------------------------------------------------------ *)
(* The state machine                                                  *)
(* ------------------------------------------------------------------ *)
\* one call at a time, from the caller's own nodes
Init ==
  /\ heap = InitHeap
  /\ log = <<>>
  /\ todo \in {<<c>> : c \in Calls}

\* up to MaxCalls calls in a row, in any order, on one heap
InitCalls ==
  /\ heap = InitHeap
  /\ log = <<>>
  /\ todo \in UNION {[1..k -> FewCalls] : k \in 1..MaxCalls}

\* the call returns: the caller holds the result
Return(c, r) ==
  /\ heap' = r.heap
  /\ log' = Append(log, [call |-> c, result |-> r.id, snapshot |-> Deep(r.heap, r.id)])
  /\ todo' = Tail(todo)

ExportAll ==
  /\ todo # <<>>
  /\ Head(todo).fn = "createExportAllDeclaration"
  /\ Return(Head(todo), createExportAllDeclaration(heap, Head(todo).args))

NamedExport ==
  /\ todo # <<>>
  /\ Head(todo).fn = "createNamedExportDeclarations"
  /\ Return(Head(todo), createNamedExportDeclarations(heap, Head(todo).args))

NamedImport ==
  /\ todo # <<>>
  /\ Head(todo).fn = "createNamedImportDeclarations"
  /\ Return(Head(todo), createNamedImportDeclarations(heap, Head(todo).args))

CallExpression ==
  /\ todo # <<>>
  /\ Head(todo).fn = "createCallExpression"
  /\ Return(Head(todo), createCallExpression(heap, Head(todo).args))

ConstVariable ==
  /\ todo # <<>>
  /\ Head(todo).fn = "createConstVariable"
  /\ Return(Head(todo), createConstVariable(heap, Head(todo).args))

Next == ExportAll \/ NamedExport \/ NamedImport \/ CallExpression \/ ConstVariable

Spec == Init /\ [][Next]_vars

SpecCalls == InitCalls /\ [][Next]_vars

(* ------------------------------------------------------------------ *)
(* Reading a result                                                   *)
(* ------------------------------------------------------------------ *)
Returned(fn) == {i \in DOMAIN log : log[i].call.fn = fn}

\* the items as the caller supplied them, one per position
Supplied(x) == IF x.isArray THEN x.items ELSE <<x.item>>
ItemIsType(it) == it.type = "object" /\ it.asType = "true"
ItemName(it) == IF it.type = "string" THEN it.text ELSE it.name
ItemAlias(it) == IF it.type = "string" THEN Undefined ELSE it.alias

\* of an ExportDeclaration
ExportClauseIsTypeOnly(h, d) == "isTypeOnly" \in h[d].flags
ExportElements(h, d) == h[h[h[d].kids[2]].kids[1]].kids
\* of an ImportDeclaration
ImportClauseIsTypeOnly(h, d) == "isTypeOnly" \in h[h[d].kids[2]].flags
ImportElements(h, d) == h[h[h[h[d].kids[2]].kids[2]].kids[1]].kids
ModuleSpecifier(h, d) == h[h[d].kids[3]]

\* of an ExportSpecifier or ImportSpecifier: `name` or `name as alias`
SpecifierIsTypeOnly(h, e) == "isTypeOnly" \in h[e].flags
SpecifierName(h, e) ==
  IF h[e].kids[1] # NoNode THEN h[h[e].kids[1]].text ELSE h[h[e].kids[2]].text
SpecifierAlias(h, e) ==
  IF h[e].kids[1] # NoNode THEN h[h[e].kids[2]].text ELSE Undefined

\* of a VariableStatement
StatementModifiers(h, s) == h[s].kids[1]
DeclarationList(h, s) == h[s].kids[2]
Declarations(h, s) == h[h[DeclarationList(h, s)].kids[1]].kids
Binding(h, decl) == h[decl].kids[1]
Initializer(h, decl) == h[decl].kids[4]

IsIdentifier(h, id, text) ==
  id # NoNode /\ h[id].kind = "Identifier" /\ h[id].text = text

(* ------------------------------------------------------------------ *)
(* C1                                                                 *)
(* ------------------------------------------------------------------ *)
\* C1: when every item passed to createNamedExportDeclarations is an object
\* with asType = true (the empty sequence included), the declaration is
\* type-only at clause level, has one element per item in input order, and no
\* element is marked type-only.
C1_AllTypeExportsUseClauseMarker ==
  \A k \in Returned("createNamedExportDeclarations") :
    LET items == Supplied(log[k].call.args.exports)
        d == log[k].result
        els == ExportElements(heap, d)
    IN (\A i \in DOMAIN items : ItemIsType(items[i])) =>
         /\ ExportClauseIsTypeOnly(heap, d)
         /\ Len(els) = Len(items)
         /\ \A i \in DOMAIN items :
              /\ ~SpecifierIsTypeOnly(heap, els[i])
              /\ SpecifierName(heap, els[i]) = ItemName(items[i])
              /\ SpecifierAlias(heap, els[i]) = ItemAlias(items[i])

C1_Witness ==
  \E k \in Returned("createNamedExportDeclarations") :
    LET items == Supplied(log[k].call.args.exports)
    IN /\ Len(items) = 2
       /\ \A i \in DOMAIN items : ItemIsType(items[i])
       /\ ItemName(items[1]) # ItemName(items[2])
       /\ Len(ExportElements(heap, log[k].result)) = 2

(* ------------------------------------------------------------------ *)
(* C2                                                                 *)
(* ------------------------------------------------------------------ *)
\* C2: when some item passed to createNamedExportDeclarations is a value item
\* (a bare string, or an object whose asType is false or absent), the
\* declaration is not type-only at clause level and each element carries the
\* type-only marker, the name and the alias of the item at its position.
C2_MixedExportsKeepItemMarkers ==
  \A k \in Returned("createNamedExportDeclarations") :
    LET items == Supplied(log[k].call.args.exports)
        d == log[k].result
        els == ExportElements(heap, d)
    IN (\E i \in DOMAIN items : ~ItemIsType(items[i])) =>
         /\ ~ExportClauseIsTypeOnly(heap, d)
         /\ Len(els) = Len(items)
         /\ \A i \in DOMAIN items :
              /\ SpecifierIsTypeOnly(heap, els[i]) = ItemIsType(items[i])
              /\ SpecifierName(heap, els[i]) = ItemName(items[i])
              /\ SpecifierAlias(heap, els[i]) = ItemAlias(items[i])

C2_Witness ==
  \E k \in Returned("createNamedExportDeclarations") :
    LET items == Supplied(log[k].call.args.exports)
        els == ExportElements(heap, log[k].result)
    IN /\ Len(items) = 2
       /\ ItemIsType(items[1])
       /\ items[2].type = "object" /\ items[2].asType = "false"
       /\ items[2].alias = "X"
       /\ SpecifierIsTypeOnly(heap, els[1])
       /\ ~SpecifierIsTypeOnly(heap, els[2])

(* ------------------------------------------------------------------ *)
(* C3                                                                 *)
(* ------------------------------------------------------------------ *)
\* the type-only placement of a declaration: the clause flag and, per position,
\* the element's marker, name and alias
ExportPlacement(h, d) ==
  [clause |-> ExportClauseIsTypeOnly(h, d),
   elements |-> [i \in DOMAIN ExportElements(h, d) |->
                   [isTypeOnly |-> SpecifierIsTypeOnly(h, ExportElements(h, d)[i]),
                    name |-> SpecifierName(h, ExportElements(h, d)[i]),
                    alias |-> SpecifierAlias(h, ExportElements(h, d)[i])]]]

ImportPlacement(h, d) ==
  [clause |-> ImportClauseIsTypeOnly(h, d),
   elements |-> [i \in DOMAIN ImportElements(h, d) |->
                   [isTypeOnly |-> SpecifierIsTypeOnly(h, ImportElements(h, d)[i]),
                    name |-> SpecifierName(h, ImportElements(h, d)[i]),
                    alias |-> SpecifierAlias(h, ImportElements(h, d)[i])]]]

\* C3: for the same items and module, createNamedImportDeclarations and
\* createNamedExportDeclarations place the type-only markers alike: equal
\* clause flags and, at every position, equal marker, name and alias.
C3_ImportAndExportPlaceMarkersAlike ==
  /\ \A k \in Returned("createNamedImportDeclarations") :
       LET a == log[k].call.args
           x == createNamedExportDeclarations(InitHeap,
                  [exports |-> a.imports, module |-> a.module])
       IN ImportPlacement(heap, log[k].result) = ExportPlacement(x.heap, x.id)
  /\ \A k \in Returned("createNamedExportDeclarations") :
       LET a == log[k].call.args
           m == createNamedImportDeclarations(InitHeap,
                  [imports |-> a.exports, module |-> a.module])
       IN ExportPlacement(heap, log[k].result) = ImportPlacement(m.heap, m.id)

C3_Witness ==
  \E k \in Returned("createNamedImportDeclarations") :
    LET items == Supplied(log[k].call.args.imports)
    IN /\ Len(items) = 2
       /\ \A i \in DOMAIN items : ItemIsType(items[i])
       /\ items[1].alias = "X"
       /\ ImportClauseIsTypeOnly(heap, log[k].result)

(* ------------------------------------------------------------------ *)
(* C4                                                                 *)
(* ------------------------------------------------------------------ *)
IsFresh(id) == id > Len(InitHeap)

\* C4: createCallExpression returns a call with one argument per supplied
\* parameter, in order (none when parameters is omitted): a string parameter
\* becomes a new identifier with that text, never a string literal; any other
\* parameter is the supplied node itself, unchanged; a string callee becomes a
\* new identifier and a member-access callee is the supplied node itself.
C4_CallKeepsArgumentsAndNamesStrings ==
  \A k \in Returned("createCallExpression") :
    LET a == log[k].call.args
        ps == IF a.parameters.present THEN a.parameters.list ELSE <<>>
        c == log[k].result
        callee == heap[c].kids[1]
        args == heap[heap[c].kids[3]].kids
    IN /\ heap[c].kind = "CallExpression"
       /\ Len(args) = Len(ps)
       /\ \A i \in DOMAIN ps :
            IF ps[i].type = "string"
            THEN IsIdentifier(heap, args[i], ps[i].text) /\ IsFresh(args[i])
            ELSE args[i] = ps[i].id /\ heap[args[i]] = InitHeap[args[i]]
       /\ IF a.functionName.type = "string"
          THEN IsIdentifier(heap, callee, a.functionName.text) /\ IsFresh(callee)
          ELSE callee = a.functionName.id /\ heap[callee] = InitHeap[callee]

C4_Witness ==
  \E k \in Returned("createCallExpression") :
    LET a == log[k].call.args
        args == heap[heap[log[k].result].kids[3]].kids
    IN /\ a.functionName = Str("foo")
       /\ a.parameters = Present(<<Str("a"), NodeRef(Literal)>>)
       /\ Len(args) = 2
       /\ heap[args[1]].kind = "Identifier"
       /\ args[2] = Literal

(* ------------------------------------------------------------------ *)
(* C5                                                                 *)
(* ------------------------------------------------------------------ *)
IsAsConst(h, id, expression) ==
  /\ h[id].kind = "AsExpression"
  /\ h[id].kids[1] = expression
  /\ h[h[id].kids[2]].kind = "TypeReference"
  /\ IsIdentifier(h, h[h[id].kids[2]].kids[1], "const")

\* C5: the initializer createConstVariable declares is the supplied expression
\* wrapped in `as const` exactly when constAssertion is truthy, and the supplied
\* expression itself otherwise; when destructure is not set the binding is the
\* plain identifier `name`, whatever constAssertion is.
C5_ConstAssertionWrapsInitializerOnly ==
  \A k \in Returned("createConstVariable") :
    LET a == log[k].call.args
        decl == Declarations(heap, log[k].result)[1]
        init == Initializer(heap, decl)
    IN /\ IF a.constAssertion = "true"
          THEN IsFresh(init) /\ IsAsConst(heap, init, a.expression)
          ELSE init = a.expression
       /\ a.destructure # "true" => IsIdentifier(heap, Binding(heap, decl), a.name)

C5_Witness ==
  \E k \in Returned("createConstVariable") :
    LET a == log[k].call.args
        decl == Declarations(heap, log[k].result)[1]
    IN /\ a.constAssertion = "true"
       /\ a.destructure = Undefined
       /\ heap[Initializer(heap, decl)].kind = "AsExpression"
       /\ heap[Binding(heap, decl)].kind = "Identifier"

(* ------------------------------------------------------------------ *)
(* C6                                                                 *)
(* ------------------------------------------------------------------ *)
\* { name }: one element, no rest token, no property name, no default
IsShorthandPattern(h, id, name) ==
  /\ h[id].kind = "ObjectBindingPattern"
  /\ LET els == h[h[id].kids[1]].kids
     IN /\ Len(els) = 1
        /\ h[els[1]].kind = "BindingElement"
        /\ h[els[1]].kids[1] = NoNode
        /\ h[els[1]].kids[2] = NoNode
        /\ IsIdentifier(h, h[els[1]].kids[3], name)
        /\ h[els[1]].kids[4] = NoNode

\* C6: with destructure truthy the binding createConstVariable declares is an
\* object-binding pattern with exactly one element, which binds the property
\* `name` to a variable of the same name, with no renaming and no default; with
\* destructure falsy it is the identifier `name`; either way the statement
\* holds exactly one declaration, in a list flagged const.
C6_DestructureBindsPropertyOfSameName ==
  \A k \in Returned("createConstVariable") :
    LET a == log[k].call.args
        s == log[k].result
        decls == Declarations(heap, s)
    IN /\ heap[s].kind = "VariableStatement"
       /\ Len(decls) = 1
       /\ heap[DeclarationList(heap, s)].flags = {"Const"}
       /\ IF a.destructure = "true"
          THEN IsShorthandPattern(heap, Binding(heap, decls[1]), a.name)
          ELSE IsIdentifier(heap, Binding(heap, decls[1]), a.name)

C6_Witness ==
  \E k \in Returned("createConstVariable") :
    LET a == log[k].call.args
        decls == Declarations(heap, log[k].result)
    IN /\ a.destructure = "true"
       /\ a.constAssertion = "true"
       /\ heap[Binding(heap, decls[1])].kind = "ObjectBindingPattern"

(* ------------------------------------------------------------------ *)
(* C7                                                                 *)
(* ------------------------------------------------------------------ *)
ExportModifiersTree ==
  [kind |-> "NodeArray", text |-> "", flags |-> {}, comment |-> <<>>,
   kids |-> <<[kind |-> "ExportKeyword", text |-> "", flags |-> {}, comment |-> <<>>,
               kids |-> <<>>]>>]

\* C7: for every other argument, the statements createConstVariable returns
\* with exportConst true and with exportConst false differ in the export
\* modifier alone: the exported one has it, the other has no modifiers, and
\* binding, type, initializer, const flag and comment are the same.
C7_ExportConstChangesModifierOnly ==
  \A k \in Returned("createConstVariable") :
    LET a == log[k].call.args
        exported == createConstVariable(InitHeap, [a EXCEPT !.exportConst = "true"])
        plain == createConstVariable(InitHeap, [a EXCEPT !.exportConst = "false"])
        e == Deep(exported.heap, exported.id)
        p == Deep(plain.heap, plain.id)
    IN /\ log[k].snapshot = IF a.exportConst = "true" THEN e ELSE p
       /\ e.kids[1] = ExportModifiersTree
       /\ p.kids[1] = NilTree
       /\ e.kids[2] = p.kids[2]
       /\ [e EXCEPT !.kids = <<>>] = [p EXCEPT !.kids = <<>>]

C7_Witness ==
  \E k \in Returned("createConstVariable") :
    LET a == log[k].call.args
    IN /\ a.exportConst = "true"
       /\ a.comment.present
       /\ a.typeName = "T"
       /\ a.destructure = "true"
       /\ StatementModifiers(heap, log[k].result) # NoNode
       /\ heap[log[k].result].comment = <<"doc">>

(* ------------------------------------------------------------------ *)
(* C8                                                                 *)
(* ------------------------------------------------------------------ *)
TakesModule ==
  Returned("createExportAllDeclaration")
    \cup Returned("createNamedExportDeclarations")
    \cup Returned("createNamedImportDeclarations")

\* C8: a call of createExportAllDeclaration, createNamedExportDeclarations
\* or createNamedImportDeclarations with an empty module path returns no
\* declaration node: it fails at the call site.
C8_EmptyModuleIsRejected ==
  \A k \in TakesModule :
    log[k].call.args.module = "" => log[k].result = NoNode

\* a call with an empty module path has returned a declaration whose module
\* specifier is the empty string
C8_Witness ==
  \E k \in TakesModule :
    /\ log[k].call.args.module = ""
    /\ log[k].result # NoNode
    /\ heap[log[k].result].kind \in {"ExportDeclaration", "ImportDeclaration"}
    /\ ModuleSpecifier(heap, log[k].result).text = ""

Longhand(x) ==
  [isArray |-> TRUE, item |-> StringItem(""),
   items |-> [i \in DOMAIN Supplied(x) |->
                IF Supplied(x)[i].type = "string"
                THEN ObjectItem(Supplied(x)[i].text, Undefined, Undefined)
                ELSE Supplied(x)[i]]]

HasStringItem(x) == \E i \in DOMAIN Supplied(x) : Supplied(x)[i].type = "string"

\* C10: createNamedExportDeclarations and createNamedImportDeclarations return
\* the same declaration for an input and for that input written without
\* shorthand (a single item as the one-element sequence, a bare string n as the
\* object {name: n}); a bare string counts as a value item, so a clause holding
\* one is never type-only.
C10_ShorthandGivesSameDeclaration ==
  /\ \A k \in Returned("createNamedExportDeclarations") :
       LET a == log[k].call.args
           l == createNamedExportDeclarations(InitHeap,
                  [exports |-> Longhand(a.exports), module |-> a.module])
       IN /\ log[k].snapshot = Deep(l.heap, l.id)
          /\ HasStringItem(a.exports) => ~ExportClauseIsTypeOnly(heap, log[k].result)
  /\ \A k \in Returned("createNamedImportDeclarations") :
       LET a == log[k].call.args
           l == createNamedImportDeclarations(InitHeap,
                  [imports |-> Longhand(a.imports), module |-> a.module])
       IN /\ log[k].snapshot = Deep(l.heap, l.id)
          /\ HasStringItem(a.imports) => ~ImportClauseIsTypeOnly(heap, log[k].result)

C10_Witness ==
  \E k \in Returned("createNamedExportDeclarations") :
    LET x == log[k].call.args.exports
    IN /\ ~x.isArray
       /\ x.item.type = "string"
       /\ Len(ExportElements(heap, log[k].result)) = 1
       /\ ~ExportClauseIsTypeOnly(heap, log[k].result)

====
